---- MODULE Spec2Model ----
(***************************************************************************)
(* Macro expansion / un-expansion engine (MacroExpander) and its           *)
(* file-pattern router (MacroExpanderRouter) of dwh_migration_client.      *)
(*                                                                         *)
(* Texts, macro names, generated values, file names and glob patterns are  *)
(* sequences of one-character strings, so that regular-expression          *)
(* matching, case folding and literal replacement are computed character   *)
(* by character, as the code computes them.                                *)
(***************************************************************************)
EXTENDS Integers, Sequences, FiniteSets, TLC

VARIABLES
    cfg,        \* expander id -> [mapping, generator, un_generator]  (set by __init__)
    all_macros, \* the router's routes: sequence of <<glob pattern, expander id>>
    reverse,    \* expander id -> (file name -> sequence of [value, count, originals])
    unmapped,   \* expander id -> (file name -> set of macro names)
    resolved,   \* history: expander id -> file name -> set of [name, full, value, path]
    last,       \* the most recent call: its arguments, its outcome, its warnings
    ncalls,     \* number of calls made so far
    work        \* number of pieces of text handed to expand so far

vars == <<cfg, all_macros, reverse, unmapped, resolved, last, ncalls, work>>

----------------------------------------------------------------------------
(* Bounds of the model *)

\* number of expand / un_expand calls in one run
MaxCalls == 4

\* total number of pieces (macro references, literal fragments) of the texts
\* handed to expand in one run; it caps the occurrence counts
MaxWork == 2

----------------------------------------------------------------------------
(* Characters *)

UpperChars == {"A", "B", "X", "P", "R", "M"}
LowerChars == {"a", "b", "x", "p", "r", "m"}

\* what \w matches among the characters used here
WordChars == UpperChars \cup LowerChars \cup {"_"}

\* str.lower() on one character; also the case folding of re.I
LowerChar(ch) ==
    CASE ch = "A" -> "a"
      [] ch = "B" -> "b"
      [] ch = "X" -> "x"
      [] ch = "P" -> "p"
      [] ch = "R" -> "r"
      [] ch = "M" -> "m"
      [] OTHER -> ch

\* str.lower()
Lower(s) == [i \in 1..Len(s) |-> LowerChar(s[i])]

\* does the literal `lit` stand in `s` at position i (re.escape'd pattern; ci = flags=re.I)
LitAt(s, lit, i, ci) ==
    /\ i >= 1
    /\ i + Len(lit) - 1 <= Len(s)
    /\ \A k \in 1..Len(lit) :
          IF ci THEN LowerChar(s[i + k - 1]) = LowerChar(lit[k])
                ELSE s[i + k - 1] = lit[k]

----------------------------------------------------------------------------
(* The macro pattern  \$\{(\w+)\}  *)

\* length of the maximal run of word characters of s starting at position i
RECURSIVE WordRun(_, _)
WordRun(s, i) ==
    IF i <= Len(s) /\ s[i] \in WordChars THEN 1 + WordRun(s, i + 1) ELSE 0

\* MatchLen for the pattern \$\{(\w*)\}: an empty name matches too
MatchLen_star(s, i) ==
    IF i + 1 <= Len(s) /\ s[i] = "$" /\ s[i + 1] = "{"
    THEN LET n == WordRun(s, i + 2)
         IN  IF i + 2 + n <= Len(s) /\ s[i + 2 + n] = "}" THEN n + 3 ELSE 0
    ELSE 0

\* length of the match of the pattern at position i of s, 0 when there is none
MatchLen(s, i) ==
    IF i + 1 <= Len(s) /\ s[i] = "$" /\ s[i + 1] = "{"
    THEN LET n == WordRun(s, i + 2)
         IN  IF n >= 1 /\ i + 2 + n <= Len(s) /\ s[i + 2 + n] = "}"
             THEN n + 3
             ELSE 0
    ELSE 0

----------------------------------------------------------------------------
(* The configured generator and un-generator (aurigae_macros.py) *)

PARAM_ == <<"P", "A", "R", "A", "M", "_">>
_PARAM == <<"_", "P", "A", "R", "A", "M">>

\* the generator without .lower()
generator_keepcase(file_name, macro_name) ==
    PARAM_ \o macro_name \o _PARAM

\* lambda file_name, macro_name: "PARAM_" + macro_name.lower() + "_PARAM"
generator(file_name, macro_name) ==
    PARAM_ \o Lower(macro_name) \o _PARAM

\* the positions j at which re.match("PARAM_(.+)_PARAM", replacement) can end group 1
ParamEnds(replacement) ==
    {j \in (Len(PARAM_) + 2)..Len(replacement) : LitAt(replacement, _PARAM, j, FALSE)}

\* un_generator(file_name, replacement, macro_name); .+ is greedy: the last "_PARAM" ends it
un_generator(file_name, replacement, macro_name) ==
    LET ends == ParamEnds(replacement)
        matched == LitAt(replacement, PARAM_, 1, FALSE) /\ ends # {}
        last_end == CHOOSE j \in ends : \A k \in ends : k <= j
        unexpanded == IF matched
                      THEN SubSeq(replacement, Len(PARAM_) + 1, last_end - 1)
                      ELSE macro_name
    IN  <<"{">> \o unexpanded \o <<"}">>

----------------------------------------------------------------------------
(* MacroExpander._substitution and MacroExpander.expand *)

\* a function extended or overwritten at one key (dict[key] = val)
Put(fn, key, val) == (key :> val) @@ fn

\* index of the entry for `value` in the per-file reverse dict, 0 when absent
IndexOf(entries, value) ==
    IF \E i \in 1..Len(entries) : entries[i].value = value
    THEN CHOOSE i \in 1..Len(entries) : entries[i].value = value
    ELSE 0

\* does the static mapping resolve the macro name (self.mapping and macro_name in self.mapping)
InMapping(c, macro_name) == macro_name \in DOMAIN c.mapping

\* record_unmapped testing the whole dict (if self.unmapped) in place of the file's key
record_unmapped_any(unm, file_name, macro_name) ==
    IF DOMAIN unm # {}
    THEN unm
    ELSE Put(unm, file_name, {macro_name})

\* lines 68-71: the bookkeeping of a macro that goes through the generator
record_unmapped(unm, file_name, macro_name) ==
    IF file_name \in DOMAIN unm
    THEN unm                                    \* .union() builds a new set that is dropped
    ELSE Put(unm, file_name, {macro_name})

\* record_reverse remembering the macro name (group 1) in place of the matched text
record_reverse_name(rev, file_name, generated, full_match) ==
    LET reverse_for_file == IF file_name \in DOMAIN rev THEN rev[file_name] ELSE <<>>
        i == IndexOf(reverse_for_file, generated)
        macro_name == SubSeq(full_match, 3, Len(full_match) - 1)
    IN  Put(rev, file_name,
            IF i > 0
            THEN [reverse_for_file EXCEPT
                    ![i] = [value |-> generated,
                            count |-> @.count + 1,
                            originals |-> @.originals \cup {macro_name}]]
            ELSE Append(reverse_for_file,
                        [value |-> generated, count |-> 1, originals |-> {macro_name}]))

\* record_reverse overwriting the entry of a value seen before in place of counting
record_reverse_reset(rev, file_name, generated, full_match) ==
    LET reverse_for_file == IF file_name \in DOMAIN rev THEN rev[file_name] ELSE <<>>
        i == IndexOf(reverse_for_file, generated)
        fresh_entry == [value |-> generated, count |-> 1, originals |-> {full_match}]
    IN  Put(rev, file_name,
            IF i > 0
            THEN [reverse_for_file EXCEPT ![i] = fresh_entry]
            ELSE Append(reverse_for_file, fresh_entry))

\* lines 80-89: count the occurrence and remember the matched text
record_reverse(rev, file_name, generated, full_match) ==
    LET reverse_for_file == IF file_name \in DOMAIN rev THEN rev[file_name] ELSE <<>>
        i == IndexOf(reverse_for_file, generated)
    IN  Put(rev, file_name,
            IF i > 0
            THEN [reverse_for_file EXCEPT
                    ![i] = [value |-> generated,
                            count |-> @.count + 1,
                            originals |-> @.originals \cup {full_match}]]
            ELSE Append(reverse_for_file,
                        [value |-> generated, count |-> 1, originals |-> {full_match}]))

\* which of the three branches of lines 65-79 resolves the macro
path_of(c, macro_name) ==
    IF InMapping(c, macro_name) THEN "mapping"
    ELSE IF c.generator # "None" THEN "generator"
    ELSE "identity"

\* generated_of falling back to the bare macro name (group 1) on the identity branch
generated_of_name(c, file_name, macro_name, full_match) ==
    CASE path_of(c, macro_name) = "mapping" -> c.mapping[macro_name]
      [] path_of(c, macro_name) = "generator" -> generator(file_name, macro_name)
      [] OTHER -> macro_name

\* the value of the macro on each branch
generated_of(c, file_name, macro_name, full_match) ==
    CASE path_of(c, macro_name) = "mapping" -> c.mapping[macro_name]
      [] path_of(c, macro_name) = "generator" -> generator(file_name, macro_name)
      [] OTHER -> full_match

\* _substitution leaving the reverse index alone when the macro resolves to itself
substitution_untracked(c, st, file_name, macro_name, full_match) ==
    LET path == path_of(c, macro_name)
        generated == generated_of(c, file_name, macro_name, full_match)
        event == [name |-> macro_name, full |-> full_match,
                  value |-> generated, path |-> path]
    IN  [rev |-> IF path = "identity" THEN st.rev
                 ELSE record_reverse(st.rev, file_name, generated, full_match),
         unm |-> IF path = "generator"
                 THEN record_unmapped(st.unm, file_name, macro_name)
                 ELSE st.unm,
         res |-> Put(st.res, file_name,
                     (IF file_name \in DOMAIN st.res THEN st.res[file_name] ELSE {})
                        \cup {event}),
         warns |-> IF path = "identity"
                   THEN st.warns \cup {[kind |-> "unresolved", what |-> full_match]}
                   ELSE st.warns,
         out |-> st.out \o generated]

\* _substitution(file_name, match) on the expander state st = [rev, unm, res, warns, out]
substitution(c, st, file_name, macro_name, full_match) ==
    LET path == path_of(c, macro_name)
        generated == generated_of(c, file_name, macro_name, full_match)
        event == [name |-> macro_name, full |-> full_match,
                  value |-> generated, path |-> path]
    IN  [rev |-> record_reverse(st.rev, file_name, generated, full_match),
         unm |-> IF path = "generator"
                 THEN record_unmapped(st.unm, file_name, macro_name)
                 ELSE st.unm,
         res |-> Put(st.res, file_name,
                     (IF file_name \in DOMAIN st.res THEN st.res[file_name] ELSE {})
                        \cup {event}),
         warns |-> IF path = "identity"
                   THEN st.warns \cup {[kind |-> "unresolved", what |-> full_match]}
                   ELSE st.warns,
         out |-> st.out \o generated]

\* pattern.sub(lambda match: ..., text) from position i on: leftmost matches, left to right
RECURSIVE expand_from(_, _, _, _, _)
expand_from(c, st, file_name, text, i) ==
    IF i > Len(text) THEN st
    ELSE LET n == MatchLen(text, i)
         IN  IF n > 0
             THEN expand_from(c,
                      substitution(c, st, file_name,
                                   SubSeq(text, i + 2, i + n - 2), SubSeq(text, i, i + n - 1)),
                      file_name, text, i + n)
             ELSE expand_from(c, [st EXCEPT !.out = Append(@, text[i])],
                              file_name, text, i + 1)

\* expand(file_name, text) of the expander with configuration c and state (rev, unm, res)
expand(c, rev, unm, res, file_name, text) ==
    expand_from(c, [rev |-> rev, unm |-> unm, res |-> res, warns |-> {}, out |-> <<>>],
                file_name, text, 1)

----------------------------------------------------------------------------
(* MacroExpander._sanity_check and MacroExpander.un_expand *)

\* re.subn(re.escape(lit), repl, text, flags)[0] from position i on: every leftmost,
\* non-overlapping occurrence of the literal is replaced; an empty literal matches
\* before every character and at the end
RECURSIVE subn(_, _, _, _, _)
subn(lit, repl, text, ci, i) ==
    IF i > Len(text) THEN (IF Len(lit) = 0 THEN repl ELSE <<>>)
    ELSE IF LitAt(text, lit, i, ci)
         THEN IF Len(lit) = 0
              THEN repl \o <<text[i]>> \o subn(lit, repl, text, ci, i + 1)
              ELSE repl \o subn(lit, repl, text, ci, i + Len(lit))
         ELSE <<text[i]>> \o subn(lit, repl, text, ci, i + 1)

\* _sanity_check(file_name): one warning per value whose originals set has several elements
sanity_check(entries) ==
    {[kind |-> "ambiguous_value", what |-> entries[k].value] :
        k \in {j \in 1..Len(entries) : Cardinality(entries[j].originals) > 1}}

\* original[1].pop(): the elements set.pop() may return (any one; none for an empty set)
pop_choices(originals) == originals

\* original[1].pop(): the set that is left in the reverse index
after_pop(originals, o) == originals \ {o}

\* lines 104-112: the text after replacing one tracked value, given the popped original
replace_one(c, file_name, replacement, original_text, text) ==
    IF c.un_generator # "None"
    THEN subn(replacement, un_generator(file_name, replacement, original_text), text, TRUE, 1)
    ELSE subn(replacement, original_text, text, FALSE, 1)

\* what a call returns when it raises instead
NoResult == <<"<no result>">>

\* un_expand_loop returning from inside the loop, after the first entry it handles
un_expand_loop_first(c, file_name, entries, k, text) ==
    IF k > Len(entries)
    THEN {[entries |-> entries, text |-> text, raised |-> "None"]}
    ELSE IF pop_choices(entries[k].originals) = {}
    THEN {[entries |-> entries, text |-> NoResult, raised |-> "KeyError"]}
    ELSE {[entries |-> [entries EXCEPT ![k].originals = after_pop(@, o)],
           text |-> replace_one(c, file_name, entries[k].value, o, text),
           raised |-> "None"] : o \in pop_choices(entries[k].originals)}

\* lines 101-122: the loop over the entries from the k-th on; the set of possible
\* outcomes [entries, text, raised], one per way set.pop() can choose
RECURSIVE un_expand_loop(_, _, _, _, _)
un_expand_loop(c, file_name, entries, k, text) ==
    IF k > Len(entries)
    THEN {[entries |-> entries, text |-> text, raised |-> "None"]}
    ELSE IF pop_choices(entries[k].originals) = {}
    THEN {[entries |-> entries, text |-> NoResult, raised |-> "KeyError"]}
    ELSE UNION {un_expand_loop(c, file_name,
                    [entries EXCEPT ![k].originals = after_pop(@, o)], k + 1,
                    replace_one(c, file_name, entries[k].value, o, text)) :
                o \in pop_choices(entries[k].originals)}

\* un_expand creating the missing entry of the file (self.reverse.setdefault(file_name, {}))
un_expand_setdefault(c, rev, file_name, text) ==
    LET had == IF file_name \in DOMAIN rev THEN rev[file_name] ELSE <<>>
    IN  {[rev |-> Put(rev, file_name, o.entries), text |-> o.text,
          raised |-> o.raised, warns |-> sanity_check(had)] :
            o \in un_expand_loop(c, file_name, had, 1, text)}

\* un_expand(file_name, text): the possible outcomes [rev, text, raised, warns]
un_expand(c, rev, file_name, text) ==
    IF file_name \notin DOMAIN rev
    THEN {[rev |-> rev, text |-> text, raised |-> "None", warns |-> {}]}
    ELSE {[rev |-> Put(rev, file_name, o.entries), text |-> o.text,
           raised |-> o.raised, warns |-> sanity_check(rev[file_name])] :
            o \in un_expand_loop(c, file_name, rev[file_name], 1, text)}

----------------------------------------------------------------------------
(* MacroExpanderRouter *)

\* fnmatch(file_name, pattern) from positions i and j on: * is any run, ? any one character
RECURSIVE glob_from(_, _, _, _)
glob_from(file_name, i, pattern, j) ==
    IF j > Len(pattern) THEN i > Len(file_name)
    ELSE IF pattern[j] = "*"
         THEN \E k \in i..(Len(file_name) + 1) : glob_from(file_name, k, pattern, j + 1)
         ELSE /\ i <= Len(file_name)
              /\ pattern[j] = "?" \/ pattern[j] = file_name[i]
              /\ glob_from(file_name, i + 1, pattern, j + 1)

fnmatch(file_name, pattern) == glob_from(file_name, 1, pattern, 1)

\* the positions of the routes whose pattern matches (the loop of lines 135-139)
matches(routes, file_name) ==
    {k \in 1..Len(routes) : fnmatch(file_name, routes[k][1])}

\* chosen_expander stopping at the first route, whether it matches or not
chosen_expander_first(routes, file_name) == routes[1][2]

\* the expander the loop leaves in chosen_expander: the one of the last matching route
chosen_expander(routes, file_name) ==
    LET m == matches(routes, file_name)
    IN  routes[CHOOSE k \in m : \A j \in m : j <= k][2]

\* choose_expander(file_name): [chosen, raised]; with several matches the call
\* loggin.warn(...) is reached, and the name loggin is not defined
choose_expander(routes, file_name) ==
    LET n == Cardinality(matches(routes, file_name))
    IN  IF n = 0 THEN [chosen |-> "None", raised |-> "None"]
        ELSE IF n > 1 THEN [chosen |-> "None", raised |-> "NameError"]
        ELSE [chosen |-> chosen_expander(routes, file_name), raised |-> "None"]

----------------------------------------------------------------------------
(* Configurations and inputs *)

Tok(macro_name) == <<"$", "{">> \o macro_name \o <<"}">>

\* MacroExpander(pattern, mapping): a static mapping only
StaticCfg ==
    [mapping |-> (<<"a">> :> <<"X">>) @@ (<<"b">> :> <<"}", "}">>),
     generator |-> "None", un_generator |-> "None"]

\* the expander of aurigae_macros.py: generator and un_generator, no mapping
AurigaeCfg ==
    [mapping |-> <<>>, generator |-> "aurigae", un_generator |-> "aurigae"]

\* a static mapping backed by the generator, no un_generator
MappedGenCfg ==
    [mapping |-> (<<"a">> :> <<"X">>), generator |-> "aurigae", un_generator |-> "None"]

\* MacroExpander(pattern): neither mapping nor generator
BareCfg ==
    [mapping |-> <<>>, generator |-> "None", un_generator |-> "None"]

\* the aurigae generator and un_generator behind a static mapping
MappedAurigaeCfg ==
    [mapping |-> (<<"a">> :> <<"X">>), generator |-> "aurigae", un_generator |-> "aurigae"]

Profiles == {StaticCfg, AurigaeCfg, MappedGenCfg, BareCfg, MappedAurigaeCfg}

A_SQL == <<"a", ".", "s", "q", "l">>
R_MD == <<"r", ".", "m", "d">>
Files == {A_SQL, R_MD}

STAR_SQL == <<"*", ".", "s", "q", "l">>
STAR_BTEQ == <<"*", ".", "b", "t", "e", "q">>
A_STAR == <<"a", ".", "*">>
Q_MD == <<"?", ".", "m", "d">>

\* the routes of aurigae_macro_router, and tables with overlapping and disjoint patterns
RouteTables ==
    { << <<STAR_SQL, "E1">>, <<STAR_BTEQ, "E1">> >>,
      << <<STAR_SQL, "E1">>, <<A_STAR, "E2">> >>,
      << <<A_STAR, "E2">>, <<STAR_SQL, "E1">> >>,
      << <<STAR_SQL, "E1">>, <<Q_MD, "E2">> >> }

A_PARAM == <<"a", "_", "p", "a", "r", "a", "m">>

\* the pieces input texts are made of: macro references (one to a name that holds
\* "_param"), a literal, and "${}", which the pattern does not match
Chunks == {Tok(<<"a">>), Tok(<<"A">>), Tok(<<"b">>), Tok(A_PARAM), <<"X">>, Tok(<<>>)}

RECURSIVE Concat(_)
Concat(pieces) ==
    IF pieces = <<>> THEN <<>> ELSE Head(pieces) \o Concat(Tail(pieces))

\* the texts of n pieces
Texts(n) == {Concat(p) : p \in [1..n -> Chunks]}

\* what the translation in between may hand back for a text: the same, or lower-cased
Downstream(text) == {text, Lower(text)}

\* the texts handed to un_expand: the last returned text after the translation
UnExpandTexts == IF last.result = NoResult THEN {last.text} ELSE Downstream(last.result)

----------------------------------------------------------------------------
(* The state machine *)

Absent == <<>>   \* an empty dict

Init ==
    /\ cfg \in [{"E1"} -> Profiles]
    /\ all_macros = <<>>
    /\ reverse = [e \in DOMAIN cfg |-> Absent]
    /\ unmapped = [e \in DOMAIN cfg |-> Absent]
    /\ resolved = [e \in DOMAIN cfg |-> Absent]
    /\ last = [op |-> "init", via |-> "direct", e |-> "None", file |-> <<>>, text |-> <<>>,
               result |-> <<>>, raised |-> "None", warns |-> {}, fresh |-> FALSE]
    /\ ncalls = 0
    /\ work = 0

RouterInit ==
    /\ cfg = ("E1" :> AurigaeCfg) @@ ("E2" :> StaticCfg)
    /\ all_macros \in RouteTables
    /\ reverse = [e \in DOMAIN cfg |-> Absent]
    /\ unmapped = [e \in DOMAIN cfg |-> Absent]
    /\ resolved = [e \in DOMAIN cfg |-> Absent]
    /\ last = [op |-> "init", via |-> "router", e |-> "None", file |-> <<>>, text |-> <<>>,
               result |-> <<>>, raised |-> "None", warns |-> {}, fresh |-> FALSE]
    /\ ncalls = 0
    /\ work = 0

\* MacroExpander.expand(file_name, text) on expander e
DoExpand(via, e, file_name, text) ==
    LET r == expand(cfg[e], reverse[e], unmapped[e], resolved[e], file_name, text)
    IN  /\ reverse' = [reverse EXCEPT ![e] = r.rev]
        /\ unmapped' = [unmapped EXCEPT ![e] = r.unm]
        /\ resolved' = [resolved EXCEPT ![e] = r.res]
        /\ last' = [op |-> "expand", via |-> via, e |-> e, file |-> file_name,
                    text |-> text, result |-> r.out, raised |-> "None", warns |-> r.warns,
                    fresh |-> file_name \notin DOMAIN reverse[e]]

\* MacroExpander.un_expand(file_name, text) on expander e
DoUnExpand(via, e, file_name, text) ==
    \E o \in un_expand(cfg[e], reverse[e], file_name, text) :
        /\ reverse' = [reverse EXCEPT ![e] = o.rev]
        /\ UNCHANGED <<unmapped, resolved>>
        /\ last' = [op |-> "un_expand", via |-> via, e |-> e, file |-> file_name,
                    text |-> text, result |-> o.text, raised |-> o.raised, warns |-> o.warns,
                    fresh |-> file_name \notin DOMAIN reverse[e]]

\* a router call that reaches no expander: no route (the text is returned) or a raise
NoExpander(op, ch, file_name, text) ==
    /\ UNCHANGED <<reverse, unmapped, resolved>>
    /\ last' = [op |-> op, via |-> "router", e |-> "None", file |-> file_name,
                text |-> text,
                result |-> IF ch.raised = "None" THEN text ELSE NoResult,
                raised |-> ch.raised, warns |-> {}, fresh |-> FALSE]

Expand ==
    /\ ncalls < MaxCalls
    /\ \E n \in 0..(MaxWork - work) :
          /\ \E e \in DOMAIN cfg, file_name \in Files, text \in Texts(n) :
                DoExpand("direct", e, file_name, text)
          /\ work' = work + n
    /\ ncalls' = ncalls + 1
    /\ UNCHANGED <<cfg, all_macros>>

UnExpand ==
    /\ ncalls < MaxCalls
    /\ \E e \in DOMAIN cfg, file_name \in Files, text \in UnExpandTexts :
          DoUnExpand("direct", e, file_name, text)
    /\ ncalls' = ncalls + 1
    /\ UNCHANGED <<cfg, all_macros, work>>

\* MacroExpanderRouter.expand(file_name, text)
RouterExpand ==
    /\ ncalls < MaxCalls
    /\ \E n \in 0..(MaxWork - work) :
          /\ \E file_name \in Files, text \in Texts(n) :
                LET ch == choose_expander(all_macros, file_name)
                IN  IF ch.chosen = "None"
                    THEN NoExpander("expand", ch, file_name, text)
                    ELSE DoExpand("router", ch.chosen, file_name, text)
          /\ work' = work + n
    /\ ncalls' = ncalls + 1
    /\ UNCHANGED <<cfg, all_macros>>

\* MacroExpanderRouter.un_expand(file_name, text)
RouterUnExpand ==
    /\ ncalls < MaxCalls
    /\ \E file_name \in Files, text \in UnExpandTexts :
          LET ch == choose_expander(all_macros, file_name)
          IN  IF ch.chosen = "None"
              THEN NoExpander("un_expand", ch, file_name, text)
              ELSE DoUnExpand("router", ch.chosen, file_name, text)
    /\ ncalls' = ncalls + 1
    /\ UNCHANGED <<cfg, all_macros, work>>

Next == Expand \/ UnExpand

RouterNext == RouterExpand \/ RouterUnExpand

Spec == Init /\ [][Next]_vars

RouterSpec == RouterInit /\ [][RouterNext]_vars

----------------------------------------------------------------------------
(* Notions the properties are stated with *)

\* the per-file reverse dict of expander e, empty when the file has no entry
ReverseOf(e, file_name) ==
    IF file_name \in DOMAIN reverse[e] THEN reverse[e][file_name] ELSE <<>>

\* the macro references of file_name resolved so far by expander e
ResolvedOf(e, file_name) ==
    IF file_name \in DOMAIN resolved[e] THEN resolved[e][file_name] ELSE {}

\* the text holds a macro reference: "${", one or more word characters, "}"
HasMacro(text) ==
    \E i \in 1..Len(text), n \in 1..Len(text) :
        /\ i + 2 + n <= Len(text)
        /\ text[i] = "$" /\ text[i + 1] = "{" /\ text[i + 2 + n] = "}"
        /\ \A k \in 1..n : text[i + 1 + k] \in WordChars

\* the positions at which the literal v stands in s
Occurrences(v, s) == {i \in 1..(Len(s) + 1) : LitAt(s, v, i, FALSE)}

\* is the macro reference `full` with value `value` written back in the partly restored
\* text: S holds the values already restored; a reference resolved to itself never moves
Restored(S, value, full) == value \in S /\ value # full

\* the text expand(file_name, text) returns, with the values in S put back to the
\* references they came from (S = {} gives the returned text itself)
RECURSIVE PartlyRestored(_, _, _, _, _)
PartlyRestored(c, file_name, text, S, i) ==
    IF i > Len(text) THEN <<>>
    ELSE LET n == MatchLen(text, i)
             full == SubSeq(text, i, i + n - 1)
             value == generated_of(c, file_name, SubSeq(text, i + 2, i + n - 2), full)
         IN  IF n = 0 THEN <<text[i]>> \o PartlyRestored(c, file_name, text, S, i + 1)
             ELSE (IF Restored(S, value, full) THEN full ELSE value)
                     \o PartlyRestored(c, file_name, text, S, i + n)

\* the places [at, value, full] of that text at which a substituted value still stands
RECURSIVE PlacesLeft(_, _, _, _, _, _)
PlacesLeft(c, file_name, text, S, i, at) ==
    IF i > Len(text) THEN {}
    ELSE LET n == MatchLen(text, i)
             full == SubSeq(text, i, i + n - 1)
             value == generated_of(c, file_name, SubSeq(text, i + 2, i + n - 2), full)
         IN  IF n = 0 THEN PlacesLeft(c, file_name, text, S, i + 1, at + 1)
             ELSE IF Restored(S, value, full)
             THEN PlacesLeft(c, file_name, text, S, i + n, at + Len(full))
             ELSE {[at |-> at, value |-> value, full |-> full]}
                     \cup PlacesLeft(c, file_name, text, S, i + n, at + Len(value))

\* all places of expand's output
Places(c, file_name, text) == PlacesLeft(c, file_name, text, {}, 1, 1)

ValuesOf(c, file_name, text) == {p.value : p \in Places(c, file_name, text)}

\* distinct macro references resolve to distinct values
DistinctValues(c, file_name, text) ==
    \A p, q \in Places(c, file_name, text) : p.full # q.full => p.value # q.value

\* with the values in S restored, every resolved value occurs only where expand put it
Clean(c, file_name, text, S) ==
    \A v \in ValuesOf(c, file_name, text) :
        Occurrences(v, PartlyRestored(c, file_name, text, S, 1))
            = {p.at : p \in {q \in PlacesLeft(c, file_name, text, S, 1, 1) : q.value = v}}

\* the non-colliding case as the claim words it: the resolved values occur only where
\* expand put them, in the text it returns and (none put there) in the text it was given
NonColliding(c, file_name, text) ==
    /\ DistinctValues(c, file_name, text)
    /\ Clean(c, file_name, text, {})
    /\ Clean(c, file_name, text, ValuesOf(c, file_name, text))

\* the same, and also in every text between the two: the returned text with some of
\* the values put back to their references
NonCollidingThroughout(c, file_name, text) ==
    /\ DistinctValues(c, file_name, text)
    /\ \A S \in SUBSET ValuesOf(c, file_name, text) : Clean(c, file_name, text, S)

\* an expander with a static mapping and no un-generator
MappedNoUnGenerator(c) == DOMAIN c.mapping # {} /\ c.un_generator = "None"

\* an expander with a static mapping, no generator and no un-generator
IsStatic(c) == MappedNoUnGenerator(c) /\ c.generator = "None"

\* this step is un_expand(f, out) right after out = expand(f, text) on a fresh f
RoundTripStep ==
    /\ last.op = "expand" /\ last.via = "direct" /\ last.fresh
    /\ last'.op = "un_expand" /\ last'.via = "direct"
    /\ last'.e = last.e /\ last'.file = last.file /\ last'.text = last.result

----------------------------------------------------------------------------
(* Properties *)

\* C1 (as claimed): with a static mapping and no un-generator, un_expand(f, expand(f, text))
\* on a fresh f returns text whenever distinct references resolve to distinct values and
\* the resolved values occur only where expand put them.
C1_RoundTrip_AsClaimed ==
    [][(RoundTripStep /\ MappedNoUnGenerator(cfg[last.e])
          /\ NonColliding(cfg[last.e], last.file, last.text))
        => (last'.raised = "None" /\ last'.result = last.text)]_vars

\* C1 (amended): the round trip returns text when, in addition, the resolved values
\* occur only at their places in every text obtained from expand's output by putting
\* some of the values back to their references.
C1_RoundTrip ==
    [][(RoundTripStep /\ MappedNoUnGenerator(cfg[last.e])
          /\ NonCollidingThroughout(cfg[last.e], last.file, last.text))
        => (last'.raised = "None" /\ last'.result = last.text)]_vars

\* C1 witness: "${a}${A}" was expanded to "X${A}" on a fresh file and un-expanded back
C1_Witness ==
    /\ ncalls = 2 /\ last.op = "un_expand" /\ IsStatic(cfg[last.e])
    /\ last.text = <<"X">> \o Tok(<<"A">>)
    /\ last.result = Tok(<<"a">>) \o Tok(<<"A">>)
    /\ Len(ReverseOf(last.e, last.file)) = 2

\* C2: unmapped[f] is exactly the set of macro names resolved through the generator.
C2_UnmappedExact ==
    \A e \in DOMAIN cfg, f \in Files :
        (IF f \in DOMAIN unmapped[e] THEN unmapped[e][f] ELSE {})
            = {r.name : r \in {q \in ResolvedOf(e, f) : q.path = "generator"}}

\* C3: no expand or un_expand call on an Expander raises.
C3_NeverRaises ==
    (last.op # "init" /\ last.via = "direct") => last.raised = "None"

\* the originals ever recorded for a value of file_name by expander e
OriginalsEver(e, file_name, value) ==
    {r.full : r \in {q \in ResolvedOf(e, file_name) : q.value = value}}

\* the expander the routes name for a file that matches exactly one pattern
OnlyRoute(file_name) ==
    all_macros[CHOOSE k \in matches(all_macros, file_name) : TRUE][2]

\* C4: a file that matches several patterns gets the expander of the last matching
\* route and a routing-ambiguity warning; the call does not fail.
C4_AmbiguousRouting ==
    (last.op # "init" /\ Cardinality(matches(all_macros, last.file)) > 1)
        => /\ last.raised # "NameError"
           /\ last.e = chosen_expander(all_macros, last.file)
           /\ [kind |-> "ambiguous_route", what |-> last.file] \in last.warns

\* C5: a router call for a file that matches no pattern returns the text and changes
\* no expander; for a file that matches exactly one pattern it returns what that
\* pattern's expander returns, and changes the state as that expander's call does.
C5_RoutingPassthrough ==
    [][LET f == last'.file
           t == last'.text
           n == Cardinality(matches(all_macros, f))
           e == OnlyRoute(f)
           r == expand(cfg[e], reverse[e], unmapped[e], resolved[e], f, t)
       IN  /\ n = 0 => /\ last'.result = t /\ last'.raised = "None"
                       /\ reverse' = reverse /\ unmapped' = unmapped
           /\ (n = 1 /\ last'.op = "expand")
                 => /\ last'.result = r.out /\ last'.raised = "None"
                    /\ reverse' = [reverse EXCEPT ![e] = r.rev]
                    /\ unmapped' = [unmapped EXCEPT ![e] = r.unm]
           /\ (n = 1 /\ last'.op = "un_expand")
                 => \E o \in un_expand(cfg[e], reverse[e], f, t) :
                       /\ last'.result = o.text /\ last'.raised = o.raised
                       /\ reverse' = [reverse EXCEPT ![e] = o.rev]
                       /\ unmapped' = unmapped]_vars

\* C5 witness: a text with a macro reference passed through unchanged for a file
\* without a route, after a call for a routed file reached its expander
C5_Witness ==
    /\ last.via = "router" /\ last.op = "expand"
    /\ matches(all_macros, last.file) = {}
    /\ HasMacro(last.text) /\ last.result = last.text
    /\ \E e \in DOMAIN cfg : DOMAIN reverse[e] # {}

\* C6: every un_expand call on a file warns about each value that the expand calls on
\* that file produced from more than one distinct matched text.
C6_CollisionWarning ==
    (last.op = "un_expand" /\ last.via = "direct")
        => \A r \in ResolvedOf(last.e, last.file) :
              Cardinality(OriginalsEver(last.e, last.file, r.value)) > 1
                 => [kind |-> "ambiguous_value", what |-> r.value] \in last.warns

\* this step is a second expand(f, text) right after the first one on a fresh f,
\* on an expander with a static mapping and no generator
TwiceStep ==
    /\ last.op = "expand" /\ last.via = "direct" /\ last.fresh
    /\ last'.op = "expand" /\ last'.via = "direct"
    /\ last'.e = last.e /\ last'.file = last.file /\ last'.text = last.text
    /\ DOMAIN cfg[last.e].mapping # {} /\ cfg[last.e].generator = "None"

\* C7 (as claimed): the second call returns the same text and leaves reverse[f] with
\* the same contents as after the first.
C7_Determinism_AsClaimed ==
    [][TwiceStep
        => /\ last'.result = last.result
           /\ ReverseOf(last.e, last.file)' = ReverseOf(last.e, last.file)]_vars

\* C7 (amended): the second call returns the same text and leaves reverse[f] with the
\* same keys and the same originals sets; every occurrence count is doubled.
C7_Determinism ==
    [][TwiceStep
        => LET before == ReverseOf(last.e, last.file)
               after == ReverseOf(last.e, last.file)'
           IN  /\ last'.result = last.result
               /\ Len(after) = Len(before)
               /\ \A k \in 1..Len(before) :
                     /\ after[k].value = before[k].value
                     /\ after[k].originals = before[k].originals
                     /\ after[k].count = 2 * before[k].count]_vars

\* C7 witness: "${a}" expanded twice on one file by the static expander
C7_Witness ==
    /\ ncalls = 2 /\ work = 2 /\ last.op = "expand" /\ IsStatic(cfg[last.e])
    /\ last.text = Tok(<<"a">>) /\ last.result = <<"X">> /\ ~last.fresh
    /\ ReverseOf(last.e, last.file)
          = <<[value |-> <<"X">>, count |-> 2, originals |-> {Tok(<<"a">>)}]>>

\* C8: expand on a text without a macro reference returns the text and leaves reverse
\* and unmapped as they were: no entry is created for the file, none is changed.
C8_NoOpOnMismatch ==
    [][(last'.op = "expand" /\ last'.via = "direct" /\ ~HasMacro(last'.text))
        => /\ last'.result = last'.text /\ last'.raised = "None"
           /\ reverse' = reverse /\ unmapped' = unmapped]_vars

\* C8 witness: "${}" was expanded on a file without an entry while the other file has one
C8_Witness ==
    /\ last.op = "expand" /\ last.via = "direct" /\ last.fresh
    /\ last.text = Tok(<<>>) /\ last.result = last.text
    /\ last.file \notin DOMAIN reverse[last.e]
    /\ last.file \notin DOMAIN unmapped[last.e]
    /\ DOMAIN reverse[last.e] # {}

\* C9: un_expand on a file without an entry in reverse returns the text, warns about
\* nothing and changes no state.
C9_UnExpandUntracked ==
    [][(last'.op = "un_expand" /\ last'.via = "direct"
          /\ last'.file \notin DOMAIN reverse[last'.e])
        => /\ last'.result = last'.text /\ last'.raised = "None" /\ last'.warns = {}
           /\ reverse' = reverse /\ unmapped' = unmapped]_vars

\* C9 witness: un_expand of a text holding a generated value of the other file, on a
\* file that was expanded with zero matches only
C9_Witness ==
    /\ last.op = "un_expand" /\ last.via = "direct" /\ last.fresh
    /\ last.text # <<>> /\ last.result = last.text
    /\ \E g \in DOMAIN reverse[last.e] :
          \E k \in 1..Len(reverse[last.e][g]) :
             Occurrences(reverse[last.e][g][k].value, last.text) # {}

\* what un_expand returns according to the claim: each tracked value, in turn, replaced
\* at every case-insensitive occurrence by the token recovered from one of its originals
RECURSIVE ClaimedResults(_, _, _, _)
ClaimedResults(e, file_name, k, text) ==
    LET entries == ReverseOf(e, file_name)
        token(o) == IF cfg[e].un_generator # "None"
                    THEN un_generator(file_name, entries[k].value, o)
                    ELSE o
    IN  IF k > Len(entries) THEN {text}
        ELSE UNION {ClaimedResults(e, file_name, k + 1,
                                   subn(entries[k].value, token(o), text, TRUE, 1)) :
                    o \in OriginalsEver(e, file_name, entries[k].value)}

\* C10: un_expand replaces every case-insensitive occurrence of each tracked value,
\* with or without an un-generator.
C10_CaseInsensitive ==
    (last.op = "un_expand" /\ last.via = "direct" /\ last.raised = "None")
        => last.result \in ClaimedResults(last.e, last.file, 1, last.text)

\* the per-file unmapped set of expander e, empty when the file has no entry
UnmappedOf(e, file_name) ==
    IF file_name \in DOMAIN unmapped[e] THEN unmapped[e][file_name] ELSE {}

\* the same two after the step
ReverseAfter(e, file_name) ==
    IF file_name \in DOMAIN reverse'[e] THEN reverse'[e][file_name] ELSE <<>>

UnmappedAfter(e, file_name) ==
    IF file_name \in DOMAIN unmapped'[e] THEN unmapped'[e][file_name] ELSE {}

\* the keys of a per-file reverse dict
Keys(entries) == {entries[k].value : k \in 1..Len(entries)}

\* the entry of a key in a per-file reverse dict
EntryOf(entries, value) == entries[IndexOf(entries, value)]

\* C11: an un_expand call leaves reverse and unmapped exactly as they were.
C11_UnExpandReadOnly ==
    [][(last'.op = "un_expand" /\ last'.via = "direct")
        => (reverse' = reverse /\ unmapped' = unmapped)]_vars

\* an expander with neither a mapping nor a generator
IsBare(c) == DOMAIN c.mapping = {} /\ c.generator = "None"

\* the macro references written in the text: "${", one or more word characters, "}"
References(text) ==
    {SubSeq(text, i, i + 2 + n) : <<i, n>> \in
        {<<i, n>> \in (1..Len(text)) \X (1..Len(text)) :
            /\ i + 2 + n <= Len(text)
            /\ text[i] = "$" /\ text[i + 1] = "{" /\ text[i + 2 + n] = "}"
            /\ \A k \in 1..n : text[i + 1 + k] \in WordChars}}

\* C12 (as claimed): with neither mapping nor generator, expand returns the text with
\* every reference unchanged and adds no key to reverse[f].
C12_IdentityUntracked_AsClaimed ==
    [][(last'.op = "expand" /\ last'.via = "direct" /\ IsBare(cfg[last'.e]))
        => /\ last'.result = last'.text
           /\ Keys(ReverseAfter(last'.e, last'.file))
                 = Keys(ReverseOf(last'.e, last'.file))]_vars

\* C12 (amended): with neither mapping nor generator, expand returns the text with
\* every reference unchanged, warns about each reference, leaves unmapped alone, and
\* records each reference in reverse[f] under the reference itself, which joins the
\* originals of that key.
C12_IdentityTracked ==
    [][(last'.op = "expand" /\ last'.via = "direct" /\ IsBare(cfg[last'.e]))
        => LET before == ReverseOf(last'.e, last'.file)
               after == ReverseAfter(last'.e, last'.file)
               refs == References(last'.text)
           IN  /\ last'.result = last'.text
               /\ last'.warns = {[kind |-> "unresolved", what |-> r] : r \in refs}
               /\ unmapped' = unmapped
               /\ Keys(after) = Keys(before) \cup refs
               /\ \A r \in refs :
                     EntryOf(after, r).originals
                        = (IF r \in Keys(before) THEN EntryOf(before, r).originals ELSE {})
                             \cup {r}]_vars

\* C12 witness: "${a}${A}" went through the bare expander unchanged and left two keys
C12_Witness ==
    /\ last.op = "expand" /\ last.via = "direct" /\ last.fresh /\ IsBare(cfg[last.e])
    /\ last.text = Tok(<<"a">>) \o Tok(<<"A">>) /\ last.result = last.text
    /\ Keys(ReverseOf(last.e, last.file)) = {Tok(<<"a">>), Tok(<<"A">>)}

\* the orders in which n entries can be processed
Perms(n) == {p \in [1..n -> 1..n] : \A i, j \in 1..n : p[i] = p[j] => i = j}

\* the entries in the order p
InOrder(entries, p) == [k \in 1..Len(entries) |-> entries[p[k]]]

\* the ways to settle beforehand which original each entry hands out
Picks(entries) ==
    {pick \in [1..Len(entries) -> UNION {entries[k].originals : k \in 1..Len(entries)}] :
        \A k \in 1..Len(entries) : pick[k] \in entries[k].originals}

\* the entries, each left with the original it is to hand out
Picked(entries, pick) ==
    [k \in 1..Len(entries) |-> [entries[k] EXCEPT !.originals = {pick[k]}]]

\* the texts un_expand returns for the entries processed in the order p
ReturnedInOrder(c, file_name, entries, p, text) ==
    {o.text : o \in un_expand_loop(c, file_name, InOrder(entries, p), 1, text)}

\* the result does not depend on the order of the entries, whichever originals are used
OrderIndependent(c, file_name, entries, text) ==
    \A pick \in Picks(entries) : \A p, q \in Perms(Len(entries)) :
        ReturnedInOrder(c, file_name, Picked(entries, pick), p, text)
            = ReturnedInOrder(c, file_name, Picked(entries, pick), q, text)

\* x occurs in y
SubstringOf(x, y, ci) == \E i \in 1..(Len(y) + 1) : LitAt(y, x, i, ci)

\* x and y can share characters of a text: one occurs in the other, or an end of one
\* is a beginning of the other (x laid d characters to the right of the start of y)
Overlaps(x, y, ci) ==
    \E d \in (1 - Len(x))..(Len(y) - 1) :
        \A i \in 1..Len(x) :
            (i + d >= 1 /\ i + d <= Len(y))
                => LitAt(y, <<x[i]>>, i + d, ci)

\* the token un_expand writes for an entry when it hands out the original o
TokenOf(c, file_name, value, o) ==
    IF c.un_generator # "None" THEN un_generator(file_name, value, o) ELSE o

\* no tracked value is a substring of another, even compared case-insensitively
NoValueInAnother(entries) ==
    \A v, w \in Keys(entries) : v # w => ~SubstringOf(v, w, TRUE)

\* no tracked value overlaps another tracked value or a token written for another,
\* compared the way the expander compares (case-insensitively with an un-generator)
NoValueOverlap(c, file_name, entries) ==
    \A j, k \in 1..Len(entries) :
        j # k => /\ entries[j].value # <<>>
                 /\ ~Overlaps(entries[j].value, entries[k].value, c.un_generator # "None")
                 /\ \A o \in entries[k].originals :
                       ~Overlaps(entries[j].value,
                                 TokenOf(c, file_name, entries[k].value, o),
                                 c.un_generator # "None")

\* C13 (as claimed): when no tracked value is a substring of another, the text un_expand
\* returns is the same for every processing order of the entries of reverse[f].
C13_OrderIndependence_AsClaimed ==
    \A e \in DOMAIN cfg, f \in Files, t \in UnExpandTexts :
        NoValueInAnother(ReverseOf(e, f))
            => OrderIndependent(cfg[e], f, ReverseOf(e, f), t)

\* C13 (amended): the text un_expand returns is the same for every processing order of
\* the entries when no tracked value overlaps another tracked value or the token
\* written for another: neither occurs in the other, no end of one begins the other.
C13_OrderIndependence ==
    \A e \in DOMAIN cfg, f \in Files, t \in UnExpandTexts :
        NoValueOverlap(cfg[e], f, ReverseOf(e, f))
            => OrderIndependent(cfg[e], f, ReverseOf(e, f), t)

\* C13 witness: after "${a}${A}" became "X${A}", both orders of the two entries give
\* "${a}${A}" back
C13_Witness ==
    /\ last.op = "expand" /\ last.via = "direct" /\ IsStatic(cfg[last.e])
    /\ last.result = <<"X">> \o Tok(<<"A">>)
    /\ LET entries == ReverseOf(last.e, last.file)
       IN  /\ Len(entries) = 2 /\ Picks(entries) # {}
           /\ NoValueOverlap(cfg[last.e], last.file, entries)
           /\ \A p \in Perms(2) :
                 ReturnedInOrder(cfg[last.e], last.file, entries, p, last.result)
                    = {Tok(<<"a">>) \o Tok(<<"A">>)}

\* the places of expand's output at which the value v was put
PlacesOf(c, file_name, text, v) == {p \in Places(c, file_name, text) : p.value = v}

\* C14: every expand call, whichever path resolves a reference, leaves reverse[f] with
\* a key for exactly the values recorded before and the values it substituted; the
\* count of a value grows by the number of its occurrences in the call, its originals
\* by the matched texts that resolved to it. From an empty index the counts are the
\* totals over all calls and the originals the sets of all matched texts.
C14_ReverseExact ==
    [][(last'.op = "expand" /\ last'.via = "direct")
        => LET c == cfg[last'.e]
               f == last'.file
               t == last'.text
               before == ReverseOf(last'.e, f)
               after == ReverseAfter(last'.e, f)
           IN  /\ Keys(after) = Keys(before) \cup ValuesOf(c, f, t)
               /\ (f \in DOMAIN reverse'[last'.e])
                     <=> (f \in DOMAIN reverse[last'.e] \/ ValuesOf(c, f, t) # {})
               /\ \A k \in 1..Len(after) :
                     LET v == after[k].value
                         old == v \in Keys(before)
                     IN  /\ \A j \in 1..Len(after) : after[j].value = v => j = k
                         /\ after[k].count
                               = (IF old THEN EntryOf(before, v).count ELSE 0)
                                    + Cardinality(PlacesOf(c, f, t, v))
                         /\ after[k].originals
                               = (IF old THEN EntryOf(before, v).originals ELSE {})
                                    \cup {p.full : p \in PlacesOf(c, f, t, v)}]_vars

\* C14 witness: after "${a}" and then "${A}" on one file of the aurigae expander, the
\* one value stands with count 2 and both matched texts
C14_Witness ==
    /\ ncalls = 2 /\ last.op = "expand" /\ last.via = "direct" /\ ~last.fresh
    /\ last.text = Tok(<<"A">>)
    /\ ReverseOf(last.e, last.file)
          = <<[value |-> generator(last.file, <<"a">>), count |-> 2,
               originals |-> {Tok(<<"a">>), Tok(<<"A">>)}]>>

\* what un_expand may return when every tracked value, in turn, is replaced at each of
\* its occurrences by the one token recovered from one of the originals recorded for it
RECURSIVE TokenResults(_, _, _, _)
TokenResults(e, file_name, k, text) ==
    LET entries == ReverseOf(e, file_name)
    IN  IF k > Len(entries) THEN {text}
        ELSE UNION {TokenResults(e, file_name, k + 1,
                        subn(entries[k].value,
                             TokenOf(cfg[e], file_name, entries[k].value, o),
                             text, cfg[e].un_generator # "None", 1)) :
                    o \in OriginalsEver(e, file_name, entries[k].value)}

\* C15: in every un_expand call on a tracked file, each tracked value gets one token,
\* recovered from one of the originals recorded for it (through the un-generator when
\* there is one), and that token replaces the value at each of its occurrences.
C15_TokenChoice ==
    (last.op = "un_expand" /\ last.via = "direct" /\ ~last.fresh)
        => /\ last.raised = "None"
           /\ last.result \in TokenResults(last.e, last.file, 1, last.text)

\* C16: reverse and unmapped only grow. Every key of reverse[f] is a value some expand
\* call on f substituted; no step removes a key, lowers a count or takes an element out
\* of an originals set or of unmapped[f]; un_expand adds no key.
C16_MonotoneGrowth ==
    [][\A e \in DOMAIN cfg, f \in Files :
          LET before == ReverseOf(e, f)
              after == ReverseAfter(e, f)
          IN  /\ Keys(before) \subseteq Keys(after)
              /\ Keys(after) \subseteq {r.value : r \in ResolvedOf(e, f)'}
              /\ \A v \in Keys(before) :
                    /\ EntryOf(before, v).count <= EntryOf(after, v).count
                    /\ EntryOf(before, v).originals \subseteq EntryOf(after, v).originals
              /\ UnmappedOf(e, f) \subseteq UnmappedAfter(e, f)
              /\ last'.op = "un_expand" => Keys(after) = Keys(before)]_vars

\* a dict cut down to the entry of one file
Only(dict, file_name) == [g \in DOMAIN dict \cap {file_name} |-> dict[g]]

\* C17: a call on file f leaves reverse[g] and unmapped[g] of every other file g as
\* they were, and returns and records for f what the same call returns and records on
\* an expander that holds the entries of f alone; so calls on different files can be
\* interleaved in any order without changing any result or any per-file state.
C17_FileIsolation ==
    [][(last'.op # "init" /\ last'.via = "direct")
        => LET e == last'.e
               c == cfg[last'.e]
               f == last'.file
               t == last'.text
               alone == expand(c, Only(reverse[e], f), Only(unmapped[e], f),
                               Only(resolved[e], f), f, t)
           IN  /\ \A g \in Files \ {f} :
                     /\ Only(reverse'[e], g) = Only(reverse[e], g)
                     /\ Only(unmapped'[e], g) = Only(unmapped[e], g)
               /\ last'.op = "expand"
                     => /\ last'.result = alone.out /\ last'.warns = alone.warns
                        /\ Only(reverse'[e], f) = alone.rev
                        /\ Only(unmapped'[e], f) = alone.unm
               /\ last'.op = "un_expand"
                     => \E o \in un_expand(c, Only(reverse[e], f), f, t) :
                           /\ last'.result = o.text /\ last'.raised = o.raised
                           /\ last'.warns = o.warns
                           /\ Only(reverse'[e], f) = o.rev
                           /\ Only(unmapped'[e], f) = Only(unmapped[e], f)]_vars

\* C17 witness: a file was expanded, then the other file, then the first was
\* un-expanded to a different text while the other file's entries stand untouched
C17_Witness ==
    /\ ncalls = 3 /\ last.op = "un_expand" /\ last.via = "direct"
    /\ last.raised = "None" /\ last.result # last.text
    /\ \E g \in Files \ {last.file} :
          /\ g \in DOMAIN reverse[last.e] /\ g \in DOMAIN unmapped[last.e]
          /\ \A k \in 1..Len(reverse[last.e][g]) : reverse[last.e][g][k].originals # {}

\* the length of the macro reference that starts at position i of the text, 0 if none
RefLen(text, i) ==
    LET ns == {n \in 1..Len(text) :
                  /\ i + 2 + n <= Len(text)
                  /\ text[i] = "$" /\ text[i + 1] = "{" /\ text[i + 2 + n] = "}"
                  /\ \A k \in 1..n : text[i + 1 + k] \in WordChars}
    IN  IF ns = {} THEN 0 ELSE 3 + CHOOSE n \in ns : TRUE

\* the text with every reference "${name}" rewritten to pre + lower(name) + post
RECURSIVE Rewritten(_, _, _, _)
Rewritten(text, i, pre, post) ==
    IF i > Len(text) THEN <<>>
    ELSE LET n == RefLen(text, i)
         IN  IF n = 0 THEN <<text[i]>> \o Rewritten(text, i + 1, pre, post)
             ELSE pre \o Lower(SubSeq(text, i + 2, i + n - 2)) \o post
                     \o Rewritten(text, i + n, pre, post)

\* the text holds something of the form PARAM_..._PARAM, in whatever case
HasParamValue(text) ==
    \E i, j \in 1..Len(text) :
        /\ j > i + Len(PARAM_)
        /\ LitAt(text, PARAM_, i, TRUE) /\ LitAt(text, _PARAM, j, TRUE)

\* every generated value occurs in the text expand returns, compared
\* case-insensitively, only at the places where expand put it
CleanInAnyCase(c, file_name, text) ==
    \A v \in ValuesOf(c, file_name, text) :
        {i \in 1..(Len(PartlyRestored(c, file_name, text, {}, 1)) + 1) :
            LitAt(PartlyRestored(c, file_name, text, {}, 1), v, i, TRUE)}
          = {p.at : p \in PlacesOf(c, file_name, text, v)}

\* C18 (as claimed): the aurigae expander replaces every "${name}" by
\* "PARAM_" + lower(name) + "_PARAM", and for every text that holds no PARAM_..._PARAM
\* value, whatever macro names occur together in it, un_expand(f, expand(f, text)) on a
\* fresh f is the text with every "${name}" replaced by "{" + lower(name) + "}".
C18_AurigaeRoundTrip_AsClaimed ==
    [][/\ (last'.op = "expand" /\ last'.via = "direct" /\ cfg[last'.e] = AurigaeCfg)
            => last'.result = Rewritten(last'.text, 1, PARAM_, _PARAM)
       /\ (RoundTripStep /\ cfg[last.e] = AurigaeCfg /\ ~HasParamValue(last.text))
            => /\ last'.raised = "None"
               /\ last'.result = Rewritten(last.text, 1, <<"{">>, <<"}">>)]_vars

\* C18 (amended): the same, for every text such that each generated value occurs in
\* the text expand returns, compared case-insensitively, only where expand put it.
C18_AurigaeRoundTrip ==
    [][/\ (last'.op = "expand" /\ last'.via = "direct" /\ cfg[last'.e] = AurigaeCfg)
            => last'.result = Rewritten(last'.text, 1, PARAM_, _PARAM)
       /\ (RoundTripStep /\ cfg[last.e] = AurigaeCfg
             /\ CleanInAnyCase(cfg[last.e], last.file, last.text))
            => /\ last'.raised = "None"
               /\ last'.result = Rewritten(last.text, 1, <<"{">>, <<"}">>)]_vars

\* C18 witness: "${A}${b}" went to "PARAM_a_PARAMPARAM_b_PARAM" and came back as "{a}{b}"
C18_Witness ==
    /\ ncalls = 2 /\ last.op = "un_expand" /\ cfg[last.e] = AurigaeCfg
    /\ last.text = generator(last.file, <<"A">>) \o generator(last.file, <<"b">>)
    /\ last.result = <<"{", "a", "}", "{", "b", "}">>
    /\ Len(ReverseOf(last.e, last.file)) = 2

\* a value of the form PARAM_<inner>_PARAM, and its inner identifier
FollowsConvention(value) ==
    /\ Len(value) > Len(PARAM_) + Len(_PARAM)
    /\ SubSeq(value, 1, Len(PARAM_)) = PARAM_
    /\ SubSeq(value, Len(value) - Len(_PARAM) + 1, Len(value)) = _PARAM

Inner(value) == SubSeq(value, Len(PARAM_) + 1, Len(value) - Len(_PARAM))

\* the macro name captured in a matched reference "${name}"
NameOf(full) == SubSeq(full, 3, Len(full) - 1)

\* what un_expand may return when the un-generator gives "{" + inner + "}" for a value
\* of the convention and "{" + name + "}", name the captured macro name, for any other
RECURSIVE NamedResults(_, _, _, _)
NamedResults(e, file_name, k, text) ==
    LET entries == ReverseOf(e, file_name)
        v == entries[k].value
        token(o) == <<"{">> \o (IF FollowsConvention(v) THEN Inner(v) ELSE NameOf(o))
                        \o <<"}">>
    IN  IF k > Len(entries) THEN {text}
        ELSE UNION {NamedResults(e, file_name, k + 1, subn(v, token(o), text, TRUE, 1)) :
                    o \in OriginalsEver(e, file_name, v)}

\* C19: the un-generator never fails; un_expand writes "{" + inner + "}" for a value
\* PARAM_<inner>_PARAM and, for a value that is not of that form, a token built from
\* the captured macro name of the original reference.
C19_UnGeneratorFallback ==
    (last.op = "un_expand" /\ last.via = "direct" /\ last.raised = "None"
       /\ cfg[last.e].un_generator # "None")
        => last.result \in NamedResults(last.e, last.file, 1, last.text)

====
